---- MODULE Spec2Model ----
(***************************************************************************)
(* Model of the Gemini Flash API gateway (src/index.js): the four POST     *)
(* handlers, the multer staging step in front of the media handlers, the   *)
(* staged files on disk, the provider client and the unlink callbacks.     *)
(* One action per synchronous segment of a handler: a segment runs from    *)
(* one suspend point (await, callback) to the next on the event loop.      *)
(***************************************************************************)
EXTENDS Integers, Sequences, FiniteSets, TLC

\* Number of requests the server is sent in one behaviour.
MaxReqs == 2

Reqs == 1..MaxReqs

VARIABLES
  req,        \* req[r]: the request as the middleware hands it to the handler
  pc,         \* pc[r]: where request r's handler is
  resps,      \* resps[r]: the HTTP responses sent for r, in order
  disk,       \* the staging directory: the set of [path, data] files on it
  nextUpload, \* number of files multer has staged so far
  unlinks,    \* fs.unlink calls issued whose callback has not run yet
  reads,      \* every file read a handler made: [req, path]
  unlinked,   \* every fs.unlink a handler issued: [req, path]
  calls,      \* calls[r]: the arguments of r's model.generateContent calls
  outcome,    \* outcome[r]: how r's provider call settled
  log         \* console.error lines: [req, what]

vars == <<req, pc, resps, disk, nextUpload, unlinks, reads, unlinked, calls, outcome, log>>

----------------------------------------------------------------------------
\* JavaScript values a JSON or multipart field can hold.

JsUndefined == [t |-> "undefined", s |-> <<>>, n |-> 0]
JsNull == [t |-> "object", s |-> <<>>, n |-> 0]
JsObject == [t |-> "object", s |-> <<>>, n |-> 1]
JsNumber(k) == [t |-> "number", s |-> <<>>, n |-> k]
JsString(str) == [t |-> "string", s |-> str, n |-> 0]

\* !v
Falsy(v) ==
  \/ v.t = "undefined"
  \/ v = JsNull
  \/ v.t = "number" /\ v.n = 0
  \/ v.t = "string" /\ v.s = <<>>

WhiteSpace == {" ", "\t", "\n"}

RECURSIVE TrimStart(_)
TrimStart(str) ==
  IF str # <<>> /\ Head(str) \in WhiteSpace THEN TrimStart(Tail(str)) ELSE str

RECURSIVE TrimEnd(_)
TrimEnd(str) ==
  IF str # <<>> /\ str[Len(str)] \in WhiteSpace
  THEN TrimEnd(SubSeq(str, 1, Len(str) - 1))
  ELSE str

\* String.prototype.trim
Trim(str) == TrimEnd(TrimStart(str))

\* a || b
OrElse(a, b) == IF Falsy(a) THEN b ELSE a

----------------------------------------------------------------------------
\* Buffer.toString('base64')

Base64Alphabet ==
  << "A","B","C","D","E","F","G","H","I","J","K","L","M","N","O","P",
     "Q","R","S","T","U","V","W","X","Y","Z","a","b","c","d","e","f",
     "g","h","i","j","k","l","m","n","o","p","q","r","s","t","u","v",
     "w","x","y","z","0","1","2","3","4","5","6","7","8","9","+","/" >>

B64(k) == Base64Alphabet[k + 1]

RECURSIVE Base64(_)
Base64(bytes) ==
  IF Len(bytes) = 0 THEN <<>>
  ELSE IF Len(bytes) = 1 THEN
    << B64(bytes[1] \div 4), B64((bytes[1] % 4) * 16), "=", "=" >>
  ELSE IF Len(bytes) = 2 THEN
    << B64(bytes[1] \div 4),
       B64((bytes[1] % 4) * 16 + bytes[2] \div 16),
       B64((bytes[2] % 16) * 4), "=" >>
  ELSE
    << B64(bytes[1] \div 4),
       B64((bytes[1] % 4) * 16 + bytes[2] \div 16),
       B64((bytes[2] % 16) * 4 + bytes[3] \div 64),
       B64(bytes[3] % 64) >> \o Base64(SubSeq(bytes, 4, Len(bytes)))

----------------------------------------------------------------------------
\* Endpoints, allow-lists, default prompts.

Endpoints == {"text", "image", "document", "audio"}

allowedImageMimeTypes == {"image/jpeg", "image/png", "image/gif", "image/webp"}

allowedDocMimeTypes ==
  { "application/pdf", "text/plain",
    "application/vnd.openxmlformats-officedocument.wordprocessingml.document",
    "application/vnd.openxmlformats-officedocument.spreadsheetml.sheet",
    "application/vnd.openxmlformats-officedocument.presentationml.presentation" }

allowedAudioMimeTypes == {"audio/mpeg", "audio/wav", "audio/mp3", "audio/x-m4a"}

Allowed(e) ==
  CASE e = "image" -> allowedImageMimeTypes
    [] e = "document" -> allowedDocMimeTypes
    [] e = "audio" -> allowedAudioMimeTypes

\* The endpoint's default instruction, as a string value (one fragment).
DefaultPrompt(e) ==
  CASE e = "image" -> JsString(<<"Describe the image in detail.">>)
    [] e = "document" -> JsString(<<"Analyze this document and summarize its key points:">>)
    [] e = "audio" -> JsString(<<"Transcribe the following audio:">>)

----------------------------------------------------------------------------
\* Requests the clients send.

NoFile == [present |-> FALSE, path |-> 0, mimetype |-> "", data |-> <<>>]

\* req.body after express.json(): an object carrying prompt, or left undefined
\* when the middleware parsed no body and its version does not default it to {}.
TextPrompts ==
  { JsUndefined, JsNull, JsNumber(5), JsString(<<>>), JsString(<<" ", "\t">>),
    JsString(<<"H", "i">>) }

TextRequests ==
  { [ep |-> "text", body |-> "object", prompt |-> p, file |-> NoFile] : p \in TextPrompts }
    \cup { [ep |-> "text", body |-> "undefined", prompt |-> JsUndefined, file |-> NoFile] }

\* Uploads: the declared MIME type and the bytes.
Uploads ==
  { [mimetype |-> "image/png", data |-> <<77>>],
    [mimetype |-> "text/plain", data |-> <<77, 97>>],
    [mimetype |-> "audio/mpeg", data |-> <<77, 97, 110>>] }

MediaPrompts == { JsUndefined, JsString(<<>>), JsString(<<"H", "i">>) }

MediaEndpoints == {"image", "document", "audio"}

\* A media request: no file in the expected field, or one upload and the
\* optional prompt field (varied for the uploads the endpoint accepts, the
\* only ones whose prompt is ever looked at).
MediaRequests ==
  { [ep |-> e, body |-> "object", prompt |-> JsUndefined, file |-> NoFile] : e \in MediaEndpoints }
    \cup { q \in { [ep |-> e, body |-> "object", prompt |-> p,
                    file |-> [present |-> TRUE, path |-> 0, mimetype |-> u.mimetype, data |-> u.data]] :
                    e \in MediaEndpoints, p \in MediaPrompts, u \in Uploads } :
            q.file.mimetype \in Allowed(q.ep) \/ q.prompt = JsUndefined }

Requests == TextRequests \cup MediaRequests

NoReq == [ep |-> "none", body |-> "undefined", prompt |-> JsUndefined, file |-> NoFile]

\* What the provider returns or throws.
Outputs == { <<"H", "i", " ", "t", "h", "e", "r", "e">>, <<"O", "k">> }

NoOutcome == [stage |-> "none", text |-> <<>>, message |-> ""]

----------------------------------------------------------------------------
\* Responses.

\* res.status(400).json({ error })
BadRequest(msg) ==
  [status |-> 400, keys |-> {"error"}, error |-> msg, details |-> "", tip |-> "", output |-> <<>>]

\* res.status(500).json({ error, details: error.message, tip })
ServerError(msg, message, tip) ==
  [status |-> 500, keys |-> {"error", "details", "tip"}, error |-> msg,
   details |-> message, tip |-> tip, output |-> <<>>]

\* res.json({ output: text })
Ok(text) ==
  [status |-> 200, keys |-> {"output"}, error |-> <<>>, details |-> "", tip |-> "", output |-> text]

MissingFileMessage(e) ==
  CASE e = "image" -> <<"File gambar diperlukan.">>
    [] e = "document" -> <<"File dokumen diperlukan.">>
    [] e = "audio" -> <<"File audio diperlukan.">>

UnsupportedMessage(e, mimeType) ==
  CASE e = "image" ->
         <<"Tipe file ", mimeType, " tidak didukung. Hanya JPEG, PNG, GIF, WebP yang diizinkan untuk gambar.">>
    [] e = "document" ->
         <<"Tipe file ", mimeType, " tidak didukung. Dokumen yang diizinkan: PDF, TXT, DOCX, XLSX, PPTX.">>
    [] e = "audio" ->
         <<"Tipe file ", mimeType, " tidak didukung. Hanya MP3, WAV, M4A yang diizinkan untuk audio.">>

FailureMessage(e) ==
  CASE e = "text" -> <<"Gagal menghasilkan teks dari Gemini.">>
    [] e = "image" -> <<"Gagal menghasilkan deskripsi dari gambar.">>
    [] e = "document" -> <<"Gagal memproses dokumen dengan Gemini.">>
    [] e = "audio" -> <<"Gagal memproses audio dengan Gemini.">>

FailureTip(e) ==
  CASE e = "text" -> "Pastikan API Key Gemini Anda valid dan service Gemini sedang tidak mengalami gangguan. Periksa juga log server untuk detail lebih lanjut."
    [] e = "image" -> "Pastikan file yang diunggah adalah gambar yang valid dan API Key Gemini Anda berfungsi. Periksa juga log server."
    [] e = "document" -> "Pastikan file yang diunggah adalah dokumen yang valid dan API Key Gemini Anda berfungsi. Periksa juga log server."
    [] e = "audio" -> "Pastikan file audio berukuran/durasi sesuai batasan Gemini (maks 2 menit untuk Flash) dan API Key Anda valid. Periksa juga log server."

----------------------------------------------------------------------------
\* The pieces of the handlers.

\* Mutation of StagePath: every upload is staged under one fixed name.
StagePathFixed(n) == 1

\* multer({ dest: 'uploads/' }): the name of the n+1-th staged file, a fresh
\* random name for every upload.
StagePath(n) == n + 1

\* Mutation of PromptInvalid: the trim() test is left out.
PromptInvalidNoTrim(p) == Falsy(p) \/ p.t # "string"

\* !prompt || typeof prompt !== 'string' || prompt.trim() === ''
PromptInvalid(p) == Falsy(p) \/ p.t # "string" \/ Trim(p.s) = <<>>

\* Mutation of Verdict: the test of req.file is left out.
VerdictNoFileCheck(q, e) ==
  IF q.file.present /\ q.file.mimetype \notin Allowed(e) THEN "unsupported" ELSE "accepted"

\* The two checks every media handler makes before it touches the file.
Verdict(q, e) ==
  IF ~q.file.present THEN "missing"
  ELSE IF q.file.mimetype \notin Allowed(e) THEN "unsupported"
  ELSE "accepted"

\* Mutation of PromptOrDefault: the prompt field is ignored.
PromptAlwaysDefault(q, e) == DefaultPrompt(e)

\* req.body.prompt || '<default>'
PromptOrDefault(q, e) == OrElse(q.prompt, DefaultPrompt(e))

\* { inlineData: { data: <base64>, mimeType } }
InlineDataPart(bytes, mimeType) ==
  [inlineData |-> [data |-> Base64(bytes), mimeType |-> mimeType]]

\* model.generateContent({ contents: [{ parts: [{ text: prompt }, part] }] })
ContentsCall(prompt, part) == [kind |-> "contents", parts |-> << [text |-> prompt], part >>]

\* model.generateContent(prompt)
PromptCall(prompt) == [kind |-> "prompt", parts |-> << [text |-> prompt] >>]

\* What reading a path does: the bytes of the file there, or an error thrown.
ReadOutcomes(path) ==
  { [ok |-> TRUE, data |-> f.data, message |-> ""] : f \in {g \in disk : g.path = path} }
    \cup { [ok |-> FALSE, data |-> <<>>, message |-> "EIO: i/o error, read"] }
    \cup { [ok |-> FALSE, data |-> <<>>, message |-> "ENOENT: no such file or directory"] :
           x \in IF \E g \in disk : g.path = path THEN {} ELSE {0} }

\* Mutation of Catch: the 500 body carries the error key alone.
CatchNoDetails(r, message) ==
  /\ log' = log \cup {[req |-> r, what |-> "handler"]}
  /\ resps' = [resps EXCEPT ![r] = Append(@, [BadRequest(FailureMessage(req[r].ep)) EXCEPT !.status = 500])]
  /\ pc' = [pc EXCEPT ![r] = "done"]

\* Mutation of Catch: the error is logged and no response is sent.
CatchSwallow(r, message) ==
  /\ log' = log \cup {[req |-> r, what |-> "handler"]}
  /\ resps' = resps
  /\ pc' = [pc EXCEPT ![r] = "done"]

\* The catch block of a handler: console.error, then the 500 response.
Catch(r, message) ==
  /\ log' = log \cup {[req |-> r, what |-> "handler"]}
  /\ resps' = [resps EXCEPT ![r] = Append(@, ServerError(FailureMessage(req[r].ep), message, FailureTip(req[r].ep)))]
  /\ pc' = [pc EXCEPT ![r] = "done"]

\* return res.status(...).json(...) / res.json(...)
Respond(r, response) ==
  /\ resps' = [resps EXCEPT ![r] = Append(@, response)]
  /\ pc' = [pc EXCEPT ![r] = "done"]
  /\ log' = log

\* Mutation of UnlinkCallback: a failed unlink is answered with a 500.
UnlinkCallbackEscalates(r, err) ==
  /\ log' = IF err THEN log \cup {[req |-> r, what |-> "unlink"]} ELSE log
  /\ resps' = IF err
              THEN [resps EXCEPT ![r] = Append(@, ServerError(FailureMessage(req[r].ep), "EPERM: operation not permitted, unlink", FailureTip(req[r].ep)))]
              ELSE resps

\* The callback of fs.unlink: (err) => { if (err) console.error(...) }
UnlinkCallback(r, err) ==
  /\ log' = IF err THEN log \cup {[req |-> r, what |-> "unlink"]} ELSE log
  /\ resps' = resps

----------------------------------------------------------------------------
Init ==
  /\ req = [r \in Reqs |-> NoReq]
  /\ pc = [r \in Reqs |-> "idle"]
  /\ resps = [r \in Reqs |-> <<>>]
  /\ disk = {}
  /\ nextUpload = 0
  /\ unlinks = {}
  /\ reads = {}
  /\ unlinked = {}
  /\ calls = [r \in Reqs |-> <<>>]
  /\ outcome = [r \in Reqs |-> NoOutcome]
  /\ log = {}

\* A request arrives and passes the middleware: express.json() for the text
\* endpoint, upload.single(field) for the media endpoints, which stages the
\* file under a fresh name and sets req.file.
Arrive(r) ==
  /\ pc[r] = "idle"
  /\ \A o \in Reqs : o < r => pc[o] # "idle"
  /\ \E q \in Requests :
       IF q.file.present
       THEN LET path == StagePath(nextUpload) IN
            /\ req' = [req EXCEPT ![r] = [q EXCEPT !.file.path = path]]
            /\ disk' = {f \in disk : f.path # path} \cup {[path |-> path, data |-> q.file.data]}
            /\ nextUpload' = nextUpload + 1
       ELSE /\ req' = [req EXCEPT ![r] = q]
            /\ UNCHANGED <<disk, nextUpload>>
  /\ pc' = [pc EXCEPT ![r] = "handler"]
  /\ UNCHANGED <<resps, unlinks, reads, unlinked, calls, outcome, log>>

\* POST /generate-text, up to the await of model.generateContent.
GenerateText(r) ==
  /\ pc[r] = "handler"
  /\ req[r].ep = "text"
  /\ IF req[r].body = "undefined"
     THEN /\ Catch(r, "Cannot destructure property 'prompt' of 'req.body' as it is undefined.")
          /\ UNCHANGED calls
     ELSE IF PromptInvalid(req[r].prompt)
     THEN /\ Respond(r, BadRequest(<<"Prompt teks diperlukan dan harus berupa string non-kosong.">>))
          /\ UNCHANGED calls
     ELSE /\ calls' = [calls EXCEPT ![r] = Append(@, PromptCall(req[r].prompt))]
          /\ pc' = [pc EXCEPT ![r] = "generating"]
          /\ UNCHANGED <<resps, log>>
  /\ UNCHANGED <<req, disk, nextUpload, unlinks, reads, unlinked, outcome>>

\* The rejections shared by the three media handlers: no file, or a MIME type
\* outside the allow-list (fs.unlink is issued, not awaited, and the 400 is sent).
Reject(r, e) ==
  /\ Verdict(req[r], e) # "accepted"
  /\ IF Verdict(req[r], e) = "missing"
     THEN /\ Respond(r, BadRequest(MissingFileMessage(e)))
          /\ UNCHANGED <<unlinks, unlinked>>
     ELSE /\ unlinks' = unlinks \cup {[req |-> r, path |-> req[r].file.path]}
          /\ unlinked' = unlinked \cup {[req |-> r, path |-> req[r].file.path]}
          /\ Respond(r, BadRequest(UnsupportedMessage(e, req[r].file.mimetype)))
  /\ UNCHANGED <<req, disk, nextUpload, reads, calls, outcome>>

\* The file is in memory: build the parts and call the provider.
Invoke(r, e, bytes) ==
  /\ calls' = [calls EXCEPT ![r] =
       Append(@, ContentsCall(PromptOrDefault(req[r], e), InlineDataPart(bytes, req[r].file.mimetype)))]
  /\ pc' = [pc EXCEPT ![r] = "generating"]
  /\ UNCHANGED <<resps, log>>

\* POST /generate-from-image, up to the await of model.generateContent: the
\* file is read with fs.readFileSync inside this segment.
GenerateFromImage(r) ==
  /\ pc[r] = "handler"
  /\ req[r].ep = "image"
  /\ \/ Reject(r, "image")
     \/ /\ Verdict(req[r], "image") = "accepted"
        /\ reads' = reads \cup {[req |-> r, path |-> req[r].file.path]}
        /\ \E o \in ReadOutcomes(req[r].file.path) :
             IF o.ok
             THEN Invoke(r, "image", o.data)
             ELSE Catch(r, o.message) /\ UNCHANGED calls
        /\ UNCHANGED <<req, disk, nextUpload, unlinks, unlinked, outcome>>

\* POST /generate-from-document, up to the await of fs.promises.readFile.
GenerateFromDocument(r) ==
  /\ pc[r] = "handler"
  /\ req[r].ep = "document"
  /\ \/ Reject(r, "document")
     \/ /\ Verdict(req[r], "document") = "accepted"
        /\ reads' = reads \cup {[req |-> r, path |-> req[r].file.path]}
        /\ pc' = [pc EXCEPT ![r] = "reading"]
        /\ UNCHANGED <<req, resps, disk, nextUpload, unlinks, unlinked, calls, outcome, log>>

\* POST /generate-from-audio, up to the await of fs.promises.readFile.
GenerateFromAudio(r) ==
  /\ pc[r] = "handler"
  /\ req[r].ep = "audio"
  /\ \/ Reject(r, "audio")
     \/ /\ Verdict(req[r], "audio") = "accepted"
        /\ reads' = reads \cup {[req |-> r, path |-> req[r].file.path]}
        /\ pc' = [pc EXCEPT ![r] = "reading"]
        /\ UNCHANGED <<req, resps, disk, nextUpload, unlinks, unlinked, calls, outcome, log>>

\* fs.promises.readFile settles: the document and audio handlers go on to the
\* await of model.generateContent, or to their catch block.
ReadFileSettled(r) ==
  /\ pc[r] = "reading"
  /\ \E o \in ReadOutcomes(req[r].file.path) :
       IF o.ok
       THEN Invoke(r, req[r].ep, o.data)
       ELSE Catch(r, o.message) /\ UNCHANGED calls
  /\ UNCHANGED <<req, disk, nextUpload, unlinks, reads, unlinked, outcome>>

\* model.generateContent settles: resolved, the handler awaits result.response;
\* rejected, it runs its catch block.
GenerateContentSettled(r) ==
  /\ pc[r] = "generating"
  /\ \/ /\ outcome' = [outcome EXCEPT ![r] = [stage |-> "result", text |-> <<>>, message |-> ""]]
        /\ pc' = [pc EXCEPT ![r] = "responding"]
        /\ UNCHANGED <<resps, log>>
     \/ /\ outcome' = [outcome EXCEPT ![r] = [stage |-> "generateContent", text |-> <<>>, message |-> "fetch failed"]]
        /\ Catch(r, "fetch failed")
  /\ UNCHANGED <<req, disk, nextUpload, unlinks, reads, unlinked, calls>>

\* result.response settles and response.text() runs: the text is relayed, or
\* either of the two throws and the catch block runs.
ResponseSettled(r) ==
  /\ pc[r] = "responding"
  /\ \/ \E text \in Outputs :
          /\ outcome' = [outcome EXCEPT ![r] = [stage |-> "ok", text |-> text, message |-> ""]]
          /\ Respond(r, Ok(text))
     \/ /\ outcome' = [outcome EXCEPT ![r] = [stage |-> "response", text |-> <<>>, message |-> "Candidate was blocked due to SAFETY"]]
        /\ Catch(r, "Candidate was blocked due to SAFETY")
  /\ UNCHANGED <<req, disk, nextUpload, unlinks, reads, unlinked, calls>>

\* An fs.unlink issued by a handler completes and its callback runs.
UnlinkSettled(r) ==
  /\ \E u \in unlinks :
       /\ u.req = r
       /\ unlinks' = unlinks \ {u}
       /\ \/ /\ \E f \in disk : f.path = u.path
             /\ disk' = {f \in disk : f.path # u.path}
             /\ UnlinkCallback(r, FALSE)
          \/ /\ UNCHANGED disk
             /\ UnlinkCallback(r, TRUE)
  /\ UNCHANGED <<req, pc, nextUpload, reads, unlinked, calls, outcome>>

Next ==
  \E r \in Reqs :
    \/ Arrive(r)
    \/ GenerateText(r)
    \/ GenerateFromImage(r)
    \/ GenerateFromDocument(r)
    \/ GenerateFromAudio(r)
    \/ ReadFileSettled(r)
    \/ GenerateContentSettled(r)
    \/ ResponseSettled(r)
    \/ UnlinkSettled(r)

Spec == Init /\ [][Next]_vars

\* Every file read and provider call eventually returns or throws, the event
\* loop runs every ready handler segment and every completed callback.
Fairness ==
  \A r \in Reqs :
    /\ WF_vars(GenerateText(r))
    /\ WF_vars(GenerateFromImage(r))
    /\ WF_vars(GenerateFromDocument(r))
    /\ WF_vars(GenerateFromAudio(r))
    /\ WF_vars(ReadFileSettled(r))
    /\ WF_vars(GenerateContentSettled(r))
    /\ WF_vars(ResponseSettled(r))
    /\ WF_vars(UnlinkSettled(r))

FairSpec == Spec /\ Fairness

----------------------------------------------------------------------------
\* Vocabulary of the properties.

Entered(r) == pc[r] # "idle"
Responded(r) == Len(resps[r]) > 0
OnDisk(path) == \E f \in disk : f.path = path
IsMedia(r) == req[r].ep \in MediaEndpoints
IsText(r) == req[r].ep = "text"
Staged(r) == IsMedia(r) /\ req[r].file.present
InAllowList(r) == Staged(r) /\ req[r].file.mimetype \in Allowed(req[r].ep)
OutsideAllowList(r) == Staged(r) /\ req[r].file.mimetype \notin Allowed(req[r].ep)
ReadBy(r) == {x \in reads : x.req = r}
UnlinkedBy(r) == {x \in unlinked : x.req = r}

\* A prompt the text endpoint must accept: a string with a non-blank character.
ValidPrompt(q) ==
  /\ q.body = "object"
  /\ q.prompt.t = "string"
  /\ \E i \in 1..Len(q.prompt.s) : q.prompt.s[i] \notin WhiteSpace

\* C1: once the response of a media request whose upload was staged and is in
\* the endpoint's allow-list has been sent (200 or 500), the staged file is no
\* longer on disk.
C1_StagedFileDeletedAfterResponse ==
  \A r \in Reqs : (InAllowList(r) /\ Responded(r)) => ~OnDisk(req[r].file.path)

\* C2: an upload whose MIME type is outside the allow-list is answered 400, its
\* file is off the disk when the response is sent, it was never read and no
\* provider call was made.
C2_RejectedUploadDeletedBeforeResponse ==
  \A r \in Reqs :
    (OutsideAllowList(r) /\ Responded(r)) =>
      /\ resps[r][1].status = 400
      /\ ~OnDisk(req[r].file.path)
      /\ ReadBy(r) = {}
      /\ calls[r] = <<>>

\* C3: a /generate-text request whose prompt is empty, blank, absent or not a
\* string, a request with no parsed body included, is answered 400 and makes no
\* provider call.
C3_InvalidPromptIs400 ==
  \A r \in Reqs :
    (IsText(r) /\ ~ValidPrompt(req[r])) =>
      /\ calls[r] = <<>>
      /\ Responded(r) => resps[r][1].status = 400

\* C4: a media request with no file in the expected field is answered 400 with
\* an error key and never reaches the file read or the provider call.
C4_MissingFileIs400 ==
  \A r \in Reqs :
    (IsMedia(r) /\ ~req[r].file.present) =>
      /\ ReadBy(r) = {}
      /\ calls[r] = <<>>
      /\ pc[r] \in {"handler", "done"}
      /\ pc[r] = "done" =>
           /\ Len(resps[r]) = 1
           /\ resps[r][1].status = 400
           /\ "error" \in resps[r][1].keys

C4_Witness ==
  \E r \in Reqs : IsMedia(r) /\ ~req[r].file.present /\ pc[r] = "done"

\* C5: an exception of the provider call (generateContent, result.response or
\* response.text()) is answered 500 with error, details and tip, details being
\* the exception's message, and the provider is called at most once a request.
C5_ProviderFailureIs500 ==
  \A r \in Reqs :
    /\ Len(calls[r]) <= 1
    /\ outcome[r].stage \in {"generateContent", "response"} =>
         /\ Len(resps[r]) = 1
         /\ resps[r][1].status = 500
         /\ resps[r][1].keys = {"error", "details", "tip"}
         /\ resps[r][1].details = outcome[r].message
         /\ [req |-> r, what |-> "handler"] \in log

\* An upload labelled audio/mpeg passes the MIME check and the provider throws.
C5_Witness ==
  \E r \in Reqs :
    /\ req[r].ep = "audio" /\ req[r].file.mimetype = "audio/mpeg"
    /\ outcome[r].stage = "generateContent"
    /\ Responded(r)

\* C6 as stated: the provider receives [text part, inlineData part], the text
\* being the request's prompt whenever a prompt field is provided and the
\* endpoint default only when none is, the inlineData carrying the declared
\* MIME type.
C6_CustomPromptWheneverProvided ==
  \A r \in Reqs :
    (IsMedia(r) /\ calls[r] # <<>>) =>
      LET c == calls[r][1] IN
      /\ Len(c.parts) = 2
      /\ c.parts[1] = [text |-> IF req[r].prompt.t = "undefined"
                                THEN DefaultPrompt(req[r].ep) ELSE req[r].prompt]
      /\ c.parts[2].inlineData.mimeType = req[r].file.mimetype

\* C6 amended: the text is the request's prompt when a non-empty prompt is
\* provided, and the endpoint default when the prompt is absent or empty.
C6_CustomPromptWhenNonEmpty ==
  \A r \in Reqs :
    (IsMedia(r) /\ calls[r] # <<>>) =>
      LET c == calls[r][1] IN
      /\ Len(c.parts) = 2
      /\ (req[r].prompt.t = "string" /\ req[r].prompt.s # <<>>) => c.parts[1] = [text |-> req[r].prompt]
      /\ (req[r].prompt.t = "undefined" \/ req[r].prompt.s = <<>>) =>
           c.parts[1] = [text |-> DefaultPrompt(req[r].ep)]
      /\ c.parts[2].inlineData.mimeType = req[r].file.mimetype

\* A custom prompt and an empty one have both reached the provider.
C6_Witness ==
  /\ \E r \in Reqs :
       /\ req[r].ep = "audio" /\ req[r].prompt = JsString(<<"H", "i">>)
       /\ calls[r] = << [kind |-> "contents",
                         parts |-> << [text |-> JsString(<<"H", "i">>)],
                                      [inlineData |-> [data |-> <<"T", "W", "F", "u">>,
                                                       mimeType |-> "audio/mpeg"]] >>] >>
  /\ \E r \in Reqs :
       /\ req[r].ep = "image" /\ req[r].prompt = JsString(<<>>)
       /\ calls[r] # <<>>

\* C7: whatever the interleaving, a handler reads and unlinks only the file
\* staged for its own request, no two requests share a staged path, the bytes a
\* request sends to the provider are those of its own upload, and a 200 relays
\* the text of the request's own provider call.
C7_Isolation ==
  /\ \A x \in reads \cup unlinked :
       /\ Staged(x.req)
       /\ x.path = req[x.req].file.path
       /\ \A o \in Reqs \ {x.req} : Staged(o) => req[o].file.path # x.path
  /\ \A r \in Reqs :
       (IsMedia(r) /\ calls[r] # <<>>) =>
         calls[r][1].parts[2].inlineData.data = Base64(req[r].file.data)
  /\ \A r \in Reqs :
       (Responded(r) /\ resps[r][1].status = 200) => resps[r][1].output = outcome[r].text

\* Two uploads are in flight together, one read and one unlink behind them.
C7_Witness ==
  \E a, b \in Reqs :
    /\ a # b
    /\ ReadBy(a) # {} /\ pc[a] \in {"reading", "generating", "responding"}
    /\ UnlinkedBy(b) # {} /\ \E u \in unlinks : u.req = b

\* C8: a /generate-text request past validation has made exactly one provider
\* call if its prompt is valid and none otherwise, so the calls number the
\* valid requests, and a 200 carries the text of the request's own call.
C8_OneCallPerValidRequest ==
  /\ \A r \in Reqs :
       (IsText(r) /\ pc[r] # "handler") =>
         /\ Len(calls[r]) = IF ValidPrompt(req[r]) THEN 1 ELSE 0
         /\ (Responded(r) /\ resps[r][1].status = 200) =>
              /\ outcome[r].stage = "ok"
              /\ resps[r][1].output = outcome[r].text
  /\ Cardinality({r \in Reqs : IsText(r) /\ calls[r] # <<>>})
       = Cardinality({r \in Reqs : IsText(r) /\ pc[r] # "handler" /\ ValidPrompt(req[r])})

\* Two requests with the same prompt, two calls, two different outputs.
C8_Witness ==
  \E a, b \in Reqs :
    /\ a # b /\ IsText(a) /\ IsText(b)
    /\ req[a].prompt = req[b].prompt
    /\ Len(calls[a]) = 1 /\ Len(calls[b]) = 1
    /\ Responded(a) /\ Responded(b)
    /\ resps[a][1].status = 200 /\ resps[b][1].status = 200
    /\ resps[a][1].output # resps[b][1].output

\* C9: when the unlink of the MIME-rejection path fails, the failure is logged
\* and the client has the one 400 response of the rejection, nothing else.
C9_UnlinkFailureOnlyLogged ==
  \A r \in Reqs :
    /\ (UnlinkedBy(r) # {} /\ (\A u \in unlinks : u.req # r) /\ OnDisk(req[r].file.path)) =>
         [req |-> r, what |-> "unlink"] \in log
    /\ [req |-> r, what |-> "unlink"] \in log =>
         resps[r] = << BadRequest(UnsupportedMessage(req[r].ep, req[r].file.mimetype)) >>

C9_Witness ==
  \E r \in Reqs :
    /\ [req |-> r, what |-> "unlink"] \in log
    /\ OnDisk(req[r].file.path)
    /\ Responded(r)

\* The responses of a request at any moment: at most one, exactly one once the
\* handler is through, 200, 400 or 500, and a 200 only with the text of a
\* provider call of the request that succeeded.
ResponseShape ==
  \A r \in Reqs :
    /\ Len(resps[r]) <= 1
    /\ Responded(r) <=> pc[r] = "done"
    /\ Responded(r) =>
         /\ resps[r][1].status \in {200, 400, 500}
         /\ resps[r][1].status = 200 =>
              /\ Len(calls[r]) = 1
              /\ outcome[r].stage = "ok"
              /\ resps[r][1].keys = {"output"}
              /\ resps[r][1].output = outcome[r].text

\* C10: every request that enters a handler ends with exactly one response,
\* 200, 400 or 500, a 200 only after its provider call succeeded and with that
\* call's text, provided every read and provider call settles.
C10_ExactlyOneResponse ==
  /\ []ResponseShape
  /\ \A r \in Reqs : (pc[r] = "handler") ~> (pc[r] = "done" /\ Len(resps[r]) = 1)

C10_Witness ==
  \E r \in Reqs :
    /\ pc[r] = "done"
    /\ resps[r] = << Ok(outcome[r].text) >>
    /\ outcome[r].text \in Outputs

====
